---- MODULE Spec2Model ----
(***************************************************************************)
(* A model of the superwhisper archiver: the scanner, the state tracker,   *)
(* the markdown formatter, the git manager and the run_archiver            *)
(* orchestrator.  Spec is a sequence of archiver runs; SpecScan, SpecStore *)
(* and SpecFormat exercise the scanner, the state tracker and the          *)
(* formatter's pure functions on their own.                                *)
(*                                                                         *)
(* Timestamp strings are kept apart from the date-times they parse to.  A  *)
(* string is [day, sep, tod]: the date part, the separator character       *)
(* between date and time ("T", " ", "" for a date-only string, "?" for a   *)
(* string that is no ISO-8601 date) and the time-of-day part.  Python      *)
(* compares strings character by character, datetime.fromisoformat turns   *)
(* them into points in time.                                               *)
(***************************************************************************)
EXTENDS Integers, Sequences, FiniteSets, TLC

VARIABLES
    fs,             \* recordings directory: id -> entry
    schema,         \* whether the tables of the state database exist
    store,          \* archived_recordings table: source_dir -> ArchiveRecord
    marked,         \* history: source_dir -> the mark_archived calls made for it
    call,           \* last call of a formatter function: its argument and result
    runs,           \* archive_runs table, in insertion order
    commits,        \* commits of the local working copy
    remote,         \* commit ids present on the remote
    now,            \* wall clock
    nruns,          \* runs started so far
    pc,             \* position of run_archiver
    dry_run, backfill, since_date,   \* arguments of the current run
    since,          \* resolved lower bound handed to scan
    scanArgs,       \* arguments of the last Scanner.scan call
    scanStatus,     \* "none", "ok" or "raised": how the last scan call ended
    recordings,     \* list returned by the last scan
    idx,            \* loop position in recordings (1-based, next to process)
    results,        \* per-item ArchiveResult list
    skipped_count,
    cur,            \* file_path / commit_sha of the candidate being archived
    syncCalls, pushCalls,   \* calls made by the current run
    pushOutcome,    \* outcome of the push of the current or last non-dry run
    prevPush,       \* outcome of the push of the non-dry run before it
    abortCause,     \* which call's exception ended the run, "" if none
    summary,        \* ArchiveSummary of the last completed run
    store0, runs0, commits0, remote0   \* store and repository when the run started

vars == <<fs, schema, store, marked, call, runs, commits, remote, now, nruns, pc, dry_run, backfill,
          since_date, since, scanArgs, scanStatus, recordings, idx, results,
          skipped_count, cur, syncCalls, pushCalls, pushOutcome, prevPush,
          abortCause, summary, store0, runs0, commits0, remote0>>

-----------------------------------------------------------------------------
(* Bounds *)

MaxDirs == 2
MaxDay == 1
MaxRuns == 2
MaxCalls == 2
MaxPathDay == 5
MaxHours == 1

Dirs == 1..MaxDirs
Tods == 0..1
MaxTime == 2 * MaxDay + 1
Times == 0..MaxTime

-----------------------------------------------------------------------------
(* Timestamp strings and date-times *)

NoDate == [day |-> 0, sep |-> "none", tod |-> 0]
Garbage == [day |-> 0, sep |-> "?", tod |-> 0]

\* str(datetime) as written by datetime.isoformat(): "T" between date and time
isoformat(t) == [day |-> t \div 2, sep |-> "T", tod |-> t % 2]

\* whether datetime.fromisoformat accepts the string
IsIso(s) == s.sep \in {"T", " ", ""}

\* datetime.fromisoformat on an accepted string; a date-only string is midnight
fromisoformat(s) == IF s.sep = "" THEN 2 * s.day ELSE 2 * s.day + s.tod

\* rank of the separator character in a string comparison: end of string
\* before " " (0x20) before "T" (0x54)
SepRank(c) == CASE c = "" -> 0 [] c = " " -> 1 [] OTHER -> 2

\* Python's str <: the date digits first, then the separator, then the time
\* digits; a non-date string starts with a letter and sorts after every digit
StrLess(a, b) ==
    IF a.sep = "?" \/ b.sep = "?"
    THEN a.sep # "?" /\ b.sep = "?"
    ELSE \/ a.day < b.day
         \/ a.day = b.day /\ SepRank(a.sep) < SepRank(b.sep)
         \/ a.day = b.day /\ a.sep = b.sep /\ a.sep # "" /\ a.tod < b.tod

\* str.lower() on the mode names in use
lower(m) ==
    CASE m \in {"Meeting", "MEETING", "meeting"} -> "meeting"
      [] m \in {"Default", "DEFAULT", "default"} -> "default"
      [] OTHER -> m

-----------------------------------------------------------------------------
(* Scanner *)

NoEntry == [kind |-> "absent", datetime |-> NoDate, modeName |-> "", duration |-> 0]

\* a directory with a meta.json that parses into a Recording
RecEntry(d, m, dur) == [kind |-> "rec", datetime |-> d, modeName |-> m, duration |-> dur]

\* an entry that is a plain file, a directory without meta.json, or a
\* directory whose meta.json fails json.loads / Recording(**meta)
OtherEntry(k) == [kind |-> k, datetime |-> NoDate, modeName |-> "", duration |-> 0]

Recording(id, e) ==
    [source_dir |-> id, datetime |-> e.datetime, modeName |-> e.modeName,
     duration |-> e.duration]

\* the iterdir() loop: entries in enumeration order, keeping the parsed ones
RECURSIVE Collect(_, _)
Collect(dir, order) ==
    IF order = <<>> THEN <<>>
    ELSE LET e == dir[Head(order)]
             rest == Collect(dir, Tail(order))
         IN IF e.kind = "rec" THEN <<Recording(Head(order), e)>> \o rest ELSE rest

\* list.sort(key=lambda r: r.datetime): stable, on the string
RECURSIVE InsertSorted(_, _)
InsertSorted(r, sorted) ==
    IF sorted = <<>> THEN <<r>>
    ELSE IF StrLess(r.datetime, Head(sorted).datetime)
         THEN <<r>> \o sorted
         ELSE <<Head(sorted)>> \o InsertSorted(r, Tail(sorted))

RECURSIVE SortByDatetime(_)
SortByDatetime(s) ==
    IF s = <<>> THEN <<>>
    ELSE InsertSorted(s[Len(s)], SortByDatetime(SubSeq(s, 1, Len(s) - 1)))

ModeKeep(modes, r) ==
    modes = <<>> \/ \E i \in 1..Len(modes) : lower(modes[i]) = lower(r.modeName)

DurationKeep(min_duration_ms, r) ==
    ~(min_duration_ms > 0) \/ r.duration >= min_duration_ms

SinceKeep(snc, r) ==
    snc = NoDate \/ fromisoformat(r.datetime) >= fromisoformat(snc)

\* Scanner.scan: [status, recs]; "raised" when fromisoformat raises in the
\* since filter, which no handler of scan catches
scan(dir, order, modes, min_duration_ms, snc) ==
    LET all == Collect(dir, order)
        byMode == SelectSeq(all, LAMBDA r : ModeKeep(modes, r))
        byDur == SelectSeq(byMode, LAMBDA r : DurationKeep(min_duration_ms, r))
    IN IF snc # NoDate /\ (~IsIso(snc) \/ \E i \in 1..Len(byDur) : ~IsIso(byDur[i].datetime))
       THEN [status |-> "raised", recs |-> <<>>]
       ELSE [status |-> "ok",
             recs |-> SortByDatetime(SelectSeq(byDur, LAMBDA r : SinceKeep(snc, r)))]

\* the orders in which iterdir() may enumerate the entries
Orders(S) ==
    {o \in [1..Cardinality(S) -> S] : \A i, j \in 1..Cardinality(S) : i # j => o[i] # o[j]}

Present(dir) == {id \in DOMAIN dir : dir[id].kind # "absent"}

-----------------------------------------------------------------------------
(* StateTracker *)

NoStore == [id \in {} |-> 0]

DropsAndCreates(exists, table, empty) == empty

\* CREATE TABLE IF NOT EXISTS: an existing table is left as it is
init_db(exists, table, empty) == IF exists THEN table ELSE empty

is_archived(st, source_dir) == source_dir \in DOMAIN st

InsertOrIgnore(st, source_dir, rec) ==
    [id \in DOMAIN st \cup {source_dir} |-> IF id \in DOMAIN st THEN st[id] ELSE rec]

\* INSERT OR REPLACE keyed on source_dir
mark_archived(st, source_dir, rec) ==
    [id \in DOMAIN st \cup {source_dir} |-> IF id = source_dir THEN rec ELSE st[id]]

ArchiveRecord(r, file_path, commit_sha, t) ==
    [datetime |-> r.datetime, mode |-> r.modeName, duration_ms |-> r.duration,
     file_path |-> file_path, commit_sha |-> commit_sha, archived_at |-> isoformat(t)]

\* SELECT run_at ... ORDER BY run_at DESC LIMIT 1, parsed; only for rs # <<>>
get_last_run_timestamp(rs) ==
    LET i == CHOOSE i \in 1..Len(rs) :
                 \A j \in 1..Len(rs) : ~StrLess(rs[i].run_at, rs[j].run_at)
    IN fromisoformat(rs[i].run_at)

\* SELECT COUNT(*) FROM archived_recordings
get_archived_count(st) == Cardinality(DOMAIN st)

\* the mark_archived calls made so far: for each source_dir the arguments of
\* the last call and the number of calls
NoMarks == [id \in {} |-> 0]

Noted(ms, source_dir, rec) ==
    [id \in DOMAIN ms \cup {source_dir} |->
        IF id = source_dir
        THEN [rec |-> rec,
              calls |-> IF source_dir \in DOMAIN ms THEN ms[source_dir].calls + 1 ELSE 1]
        ELSE ms[id]]

update_last_run(rs, t, processed, archived, failed) ==
    Append(rs, [run_at |-> isoformat(t), recordings_processed |-> processed,
                recordings_archived |-> archived, recordings_failed |-> failed])

-----------------------------------------------------------------------------
(* MarkdownFormatter *)

NoPath == <<>>

\* the calendar date of day number d and the clock time of time-of-day t
\* (time-of-day 0 is midnight: a date-only string parses to it)
DateOf(d) ==
    [year |-> 2025 + d \div 4,
     month |-> IF (d \div 2) % 2 = 0 THEN 1 ELSE 11,
     day |-> IF d % 2 = 0 THEN 1 ELSE 11]

TimeOf(t) ==
    IF t = 0 THEN [hour |-> 0, minute |-> 0, second |-> 0]
    ELSE [hour |-> 9, minute |-> 5, second |-> 7]

DigitChars == <<"0", "1", "2", "3", "4", "5", "6", "7", "8", "9">>

NoPadding(n, width) ==
    IF n < 10 THEN <<DigitChars[n + 1]>>
    ELSE [i \in 1..width |-> DigitChars[((n \div (10 ^ (width - i))) % 10) + 1]]

\* strftime's %Y, %m, %d, %H, %M, %S: n in decimal, zero-padded to width
strftime(n, width) ==
    [i \in 1..width |-> DigitChars[((n \div (10 ^ (width - i))) % 10) + 1]]

NoCall == [fn |-> "none"]

\* the path is rendered from the parsed date-time, not from the string
compute_file_path(r) ==
    LET dt == fromisoformat(r.datetime)
        d == DateOf(dt \div 2)
        t == TimeOf(dt % 2)
        year == strftime(d.year, 4)
        month == strftime(d.month, 2)
        filename == strftime(d.year, 4) \o <<"-">> \o strftime(d.month, 2) \o <<"-">>
                    \o strftime(d.day, 2) \o <<"-">> \o strftime(t.hour, 2) \o <<"-">>
                    \o strftime(t.minute, 2) \o <<"-">> \o strftime(t.second, 2)
                    \o <<".", "m", "d">>
    IN year \o <<"/">> \o month \o <<"/">> \o filename

\* "{n}" of an f-string for an int n >= 0
RECURSIVE decimal(_)
decimal(n) ==
    IF n < 10 THEN <<DigitChars[n + 1]>>
    ELSE decimal(n \div 10) \o <<DigitChars[(n % 10) + 1]>>

MinutesOfTotal(duration_ms) ==
    LET total_seconds == duration_ms \div 1000
        hours == total_seconds \div 3600
        minutes == total_seconds \div 60
        seconds == total_seconds % 60
    IN IF hours > 0
       THEN decimal(hours) \o <<"h", " ">> \o decimal(minutes) \o <<"m", " ">>
            \o decimal(seconds) \o <<"s">>
       ELSE IF minutes > 0
            THEN decimal(minutes) \o <<"m", " ">> \o decimal(seconds) \o <<"s">>
            ELSE decimal(seconds) \o <<"s">>

\* _format_duration, lines 91-103
format_duration(duration_ms) ==
    LET total_seconds == duration_ms \div 1000
        hours == total_seconds \div 3600
        minutes == (total_seconds % 3600) \div 60
        seconds == total_seconds % 60
    IN IF hours > 0
       THEN decimal(hours) \o <<"h", " ">> \o decimal(minutes) \o <<"m", " ">>
            \o decimal(seconds) \o <<"s">>
       ELSE IF minutes > 0
            THEN decimal(minutes) \o <<"m", " ">> \o decimal(seconds) \o <<"s">>
            ELSE decimal(seconds) \o <<"s">>

\* format_recording parses the timestamp for the title line and raises
\* ValueError when it is no ISO-8601 string
format_raises(r) == ~IsIso(r.datetime)

-----------------------------------------------------------------------------
(* GitManager *)

NoSha == 0

\* how a call into the git library can end: normally, with GitCommandError,
\* or with an exception of another class (repo.remote() raises ValueError for
\* an unknown remote, repo.active_branch raises TypeError on a detached HEAD)
GitOutcomes == {"ok", "GitCommandError", "ValueError"}

\* `except GitCommandError` of ensure_up_to_date and push_to_remote
CatchesGitCommandError(exc) == exc = "GitCommandError"

\* index.commit: a fresh commit id
NewSha(cs) == Cardinality(cs) + 1

Commit(sha, file_path, source_dir) == [sha |-> sha, path |-> file_path, src |-> source_dir]

PushesOnlyNewest(local, rem) ==
    rem \cup {c.sha : c \in {x \in local : x.sha = Cardinality(local)}}

\* origin.push(default_branch): the branch, hence every local commit
pushed(local, rem) == rem \cup {c.sha : c \in local}

-----------------------------------------------------------------------------
(* Orchestrator: archive_recording and run_archiver *)

ConfigModes == <<"meeting">>
ConfigMinDuration == 0

Success(source_dir, file_path, commit_sha) ==
    [success |-> TRUE, source_dir |-> source_dir, error |-> "",
     file_path |-> file_path, commit_sha |-> commit_sha]

Failure(source_dir, err) ==
    [success |-> FALSE, source_dir |-> source_dir, error |-> err,
     file_path |-> NoPath, commit_sha |-> NoSha]

NoCur == [file_path |-> NoPath, commit_sha |-> NoSha]
NoArgs == [modes |-> <<>>, min_duration_ms |-> 0, since |-> NoDate]
NoSummary ==
    [total_recordings |-> 0, archived_count |-> 0, failed_count |-> 0,
     skipped_count |-> 0, results |-> <<>>]

CountSuccess(rs) == Cardinality({i \in 1..Len(rs) : rs[i].success})
CountFailure(rs) == Cardinality({i \in 1..Len(rs) : ~rs[i].success})

TotalIsProcessed(recs, rs, skipped) ==
    [total_recordings |-> Len(rs),
     archived_count |-> CountSuccess(rs),
     failed_count |-> CountFailure(rs),
     skipped_count |-> skipped,
     results |-> rs]

\* lines 172-178 of run_archiver
ArchiveSummary(recs, rs, skipped) ==
    [total_recordings |-> Len(recs),
     archived_count |-> CountSuccess(rs),
     failed_count |-> CountFailure(rs),
     skipped_count |-> skipped,
     results |-> rs]

SinceBeforeBackfill(bf, sd, rs) ==
    IF sd # NoDate THEN sd
    ELSE IF ~bf /\ rs # <<>> THEN isoformat(get_last_run_timestamp(rs))
    ELSE NoDate

\* lines 128-136 of run_archiver
resolve_since(bf, sd, rs) ==
    IF ~bf
    THEN IF sd # NoDate THEN sd
         ELSE IF rs # <<>> THEN isoformat(get_last_run_timestamp(rs))
         ELSE NoDate
    ELSE NoDate

NeverFails(sha) == FALSE

\* `if not commit_sha: raise Exception(...)`
commit_failed(sha) == sha = NoSha

LetsCommitFailureThrough(exc) == exc # "Exception"

\* `except Exception` of archive_recording: every exception class modelled
\* here derives from Exception
CatchesException(exc) == TRUE

AlwaysArchive(st, source_dir) == FALSE

\* the `if state_tracker.is_archived(...)` test of the loop
already_archived(st, source_dir) == is_archived(st, source_dir)

PushWheneverNotDry(dry, rs) == ~dry

\* `if not dry_run and any(r.success for r in results)`
should_push(dry, rs) == ~dry /\ \E i \in 1..Len(rs) : rs[i].success

Idle == pc = "idle"

Ended == pc \in {"done", "aborted"}

Cand == recordings[idx]

RunLocal == <<dry_run, backfill, since_date, since, scanArgs, scanStatus, recordings,
              idx, results, skipped_count, cur, syncCalls, pushCalls, pushOutcome,
              prevPush, abortCause, summary, store0, runs0, commits0, remote0>>

Init ==
    /\ fs = [id \in Dirs |-> NoEntry]
    /\ schema = FALSE
    /\ store = NoStore
    /\ marked = NoMarks
    /\ call = NoCall
    /\ runs = <<>>
    /\ commits = {}
    /\ remote = {}
    /\ now = 0
    /\ nruns = 0
    /\ pc = "idle"
    /\ dry_run = FALSE /\ backfill = FALSE /\ since_date = NoDate
    /\ since = NoDate
    /\ scanArgs = NoArgs
    /\ scanStatus = "none"
    /\ recordings = <<>>
    /\ idx = 1
    /\ results = <<>>
    /\ skipped_count = 0
    /\ cur = NoCur
    /\ syncCalls = 0 /\ pushCalls = 0
    /\ pushOutcome = "none" /\ prevPush = "none"
    /\ abortCause = ""
    /\ summary = NoSummary
    /\ store0 = NoStore /\ runs0 = <<>> /\ commits0 = {} /\ remote0 = {}

\* a new recording directory appears (between runs: a scan reads the
\* directory in one step); directory names are interchangeable, so they are
\* handed out in order, and iterdir() enumerates them in any order
RunEntries == {RecEntry(d, "Meeting", 13647) : d \in {isoformat(0), isoformat(MaxTime), Garbage}}

AddEntry ==
    \E id \in Dirs, e \in RunEntries :
        /\ Idle
        /\ fs[id].kind = "absent"
        /\ \A other \in Dirs : other < id => fs[other].kind # "absent"
        /\ fs' = [fs EXCEPT ![id] = e]
        /\ UNCHANGED <<schema, store, marked, call, runs, commits, remote, now, nruns, pc>>
        /\ UNCHANGED RunLocal

\* time passes; within a run the clock is read when a record is marked
\* (archived_at) and when the run is recorded (run_at)
Tick ==
    /\ Idle \/ pc \in {"mark", "record"}
    /\ now < MaxTime
    /\ now' = now + 1
    /\ UNCHANGED <<fs, schema, store, marked, call, runs, commits, remote, nruns, pc>>
    /\ UNCHANGED RunLocal

SinceDates == {NoDate, [day |-> MaxDay, sep |-> "", tod |-> 0]}

\* run_archiver is entered: lines 103-120
StartRun ==
    \E d \in BOOLEAN, b \in BOOLEAN, s \in SinceDates :
        /\ Idle
        /\ nruns < MaxRuns
        /\ nruns' = nruns + 1
        /\ dry_run' = d /\ backfill' = b /\ since_date' = s
        /\ since' = NoDate
        /\ scanArgs' = NoArgs /\ scanStatus' = "none"
        /\ recordings' = <<>> /\ idx' = 1 /\ results' = <<>> /\ skipped_count' = 0
        /\ cur' = NoCur
        /\ syncCalls' = 0 /\ pushCalls' = 0
        /\ prevPush' = IF d THEN prevPush ELSE pushOutcome
        /\ pushOutcome' = IF d THEN pushOutcome ELSE "none"
        /\ abortCause' = ""
        /\ summary' = NoSummary
        /\ schema' = TRUE
        /\ store' = init_db(schema, store, NoStore)
        /\ runs' = init_db(schema, runs, <<>>)
        /\ store0' = store' /\ runs0' = runs' /\ commits0' = commits /\ remote0' = remote
        /\ pc' = IF d THEN "scan" ELSE "sync"
        /\ UNCHANGED <<fs, marked, call, commits, remote, now>>

\* git_manager.ensure_up_to_date(), lines 122-123
EnsureUpToDate ==
    /\ pc = "sync"
    /\ \E out \in GitOutcomes :
        /\ syncCalls' = syncCalls + 1
        /\ IF out = "ok" \/ CatchesGitCommandError(out)
           THEN pc' = "scan" /\ abortCause' = abortCause
           ELSE pc' = "aborted" /\ abortCause' = "sync"
    /\ UNCHANGED <<fs, schema, store, marked, call, runs, commits, remote, now, nruns,
                   dry_run, backfill,
                   since_date, since, scanArgs, scanStatus, recordings, idx, results,
                   skipped_count, cur, pushCalls, pushOutcome, prevPush, summary,
                   store0, runs0, commits0, remote0>>

ModeOverrides == {<<>>, <<"MEETING">>}

\* lines 125-143: the mode filter, the since filter and the scan
ResolveAndScan ==
    /\ pc = "scan"
    /\ \E order \in Orders(Present(fs)), modes_override \in ModeOverrides :
        LET modes == IF modes_override # <<>> THEN modes_override ELSE ConfigModes
            snc == resolve_since(backfill, since_date, runs)
            r == scan(fs, order, modes, ConfigMinDuration, snc)
        IN /\ since' = snc
           /\ scanArgs' = [modes |-> modes, min_duration_ms |-> ConfigMinDuration,
                           since |-> snc]
           /\ scanStatus' = r.status
           /\ recordings' = r.recs
           /\ IF r.status = "raised"
              THEN pc' = "aborted" /\ abortCause' = "scan"
              ELSE pc' = "loop" /\ abortCause' = abortCause
    /\ UNCHANGED <<fs, schema, store, marked, call, runs, commits, remote, now, nruns,
                   dry_run, backfill,
                   since_date, idx, results, skipped_count, cur, syncCalls, pushCalls,
                   pushOutcome, prevPush, summary, store0, runs0, commits0, remote0>>

LoopFrame ==
    UNCHANGED <<fs, schema, call, runs, remote, now, nruns, dry_run, backfill, since_date, since,
                scanArgs, scanStatus, recordings, syncCalls, pushCalls, pushOutcome,
                prevPush, summary, store0, runs0, commits0, remote0>>

\* lines 150-153
LoopSkip ==
    /\ pc = "loop" /\ idx <= Len(recordings)
    /\ already_archived(store, Cand.source_dir)
    /\ skipped_count' = skipped_count + 1
    /\ idx' = idx + 1
    /\ UNCHANGED <<pc, store, marked, commits, results, cur, abortCause>>
    /\ LoopFrame

\* line 155: archive_recording is called
LoopArchive ==
    /\ pc = "loop" /\ idx <= Len(recordings)
    /\ ~already_archived(store, Cand.source_dir)
    /\ pc' = "format"
    /\ UNCHANGED <<idx, skipped_count, store, marked, commits, results, cur, abortCause>>
    /\ LoopFrame

LoopEnd ==
    /\ pc = "loop" /\ idx > Len(recordings)
    /\ pc' = "push"
    /\ UNCHANGED <<idx, skipped_count, store, marked, commits, results, cur, abortCause>>
    /\ LoopFrame

\* an exception of class exc raised inside the try block of archive_recording
Raised(exc, msg) ==
    IF CatchesException(exc)
    THEN /\ results' = Append(results, Failure(Cand.source_dir, msg))
         /\ idx' = idx + 1
         /\ cur' = NoCur
         /\ pc' = "loop"
         /\ abortCause' = abortCause
    ELSE /\ pc' = "aborted"
         /\ abortCause' = "recording"
         /\ UNCHANGED <<results, idx, cur>>

\* lines 63-68
Format ==
    /\ pc = "format"
    /\ IF format_raises(Cand)
       THEN Raised("ValueError", "Invalid isoformat string")
       ELSE IF dry_run
            THEN /\ results' = Append(results,
                                  Success(Cand.source_dir, compute_file_path(Cand), NoSha))
                 /\ idx' = idx + 1
                 /\ pc' = "loop"
                 /\ UNCHANGED <<cur, abortCause>>
            ELSE /\ cur' = [file_path |-> compute_file_path(Cand), commit_sha |-> NoSha]
                 /\ pc' = "commit"
                 /\ UNCHANGED <<results, idx, abortCause>>
    /\ UNCHANGED <<skipped_count, store, marked, commits>>
    /\ LoopFrame

\* lines 70-79: write_and_commit returns a commit id, or None on any failure
WriteAndCommit ==
    /\ pc = "commit"
    /\ \E ok \in BOOLEAN :
        LET sha == IF ok THEN NewSha(commits) ELSE NoSha
        IN /\ commits' = IF ok THEN commits \cup {Commit(sha, cur.file_path, Cand.source_dir)}
                         ELSE commits
           /\ IF commit_failed(sha)
              THEN Raised("Exception", "Failed to commit recording")
              ELSE /\ cur' = [cur EXCEPT !.commit_sha = sha]
                   /\ pc' = "mark"
                   /\ UNCHANGED <<results, idx, abortCause>>
    /\ UNCHANGED <<skipped_count, store, marked>>
    /\ LoopFrame

\* lines 81-96: mark_archived, which may raise a database error
MarkArchived ==
    /\ pc = "mark"
    /\ \E ok \in BOOLEAN :
        IF ok
        THEN /\ store' = mark_archived(store, Cand.source_dir,
                             ArchiveRecord(Cand, cur.file_path, cur.commit_sha, now))
             /\ marked' = Noted(marked, Cand.source_dir,
                                ArchiveRecord(Cand, cur.file_path, cur.commit_sha, now))
             /\ results' = Append(results,
                                  Success(Cand.source_dir, cur.file_path, cur.commit_sha))
             /\ idx' = idx + 1
             /\ cur' = NoCur
             /\ pc' = "loop"
             /\ abortCause' = abortCause
        ELSE /\ UNCHANGED <<store, marked>>
             /\ Raised("sqlite3.Error", "database error")
    /\ UNCHANGED <<skipped_count, commits>>
    /\ LoopFrame

TailFrame ==
    UNCHANGED <<fs, schema, store, marked, call, commits, now, nruns, dry_run, backfill, since_date, since,
                scanArgs, scanStatus, recordings, idx, results, skipped_count, cur,
                syncCalls, prevPush, store0, runs0, commits0, remote0>>

\* lines 159-160 when the condition holds
PushToRemote ==
    /\ pc = "push"
    /\ should_push(dry_run, results)
    /\ pushCalls' = pushCalls + 1
    /\ \E out \in GitOutcomes :
        /\ remote' = IF out = "ok" THEN pushed(commits, remote) ELSE remote
        /\ pushOutcome' = CASE out = "ok" -> "ok"
                            [] CatchesGitCommandError(out) -> "failed"
                            [] OTHER -> "raised"
        /\ IF out = "ok" \/ CatchesGitCommandError(out)
           THEN pc' = "record" /\ abortCause' = abortCause
           ELSE pc' = "aborted" /\ abortCause' = "push"
    /\ UNCHANGED <<runs, summary>>
    /\ TailFrame

\* lines 159-160 when it does not
SkipPush ==
    /\ pc = "push"
    /\ ~should_push(dry_run, results)
    /\ pc' = "record"
    /\ UNCHANGED <<runs, summary, remote, pushCalls, pushOutcome, abortCause>>
    /\ TailFrame

\* lines 163-170
RecordRun ==
    /\ pc = "record"
    /\ runs' = IF ~dry_run
               THEN update_last_run(runs, now, Len(recordings), CountSuccess(results),
                                    CountFailure(results))
               ELSE runs
    /\ pc' = "summary"
    /\ UNCHANGED <<summary, remote, pushCalls, pushOutcome, abortCause>>
    /\ TailFrame

\* lines 172-184
Summarize ==
    /\ pc = "summary"
    /\ summary' = ArchiveSummary(recordings, results, skipped_count)
    /\ pc' = "done"
    /\ UNCHANGED <<runs, remote, pushCalls, pushOutcome, abortCause>>
    /\ TailFrame

\* what a process holds in memory is gone when it ends; the store, the
\* repository and the remote stay
Forget ==
    /\ dry_run' = FALSE /\ backfill' = FALSE /\ since_date' = NoDate
    /\ since' = NoDate
    /\ scanArgs' = NoArgs /\ scanStatus' = "none"
    /\ recordings' = <<>> /\ idx' = 1 /\ results' = <<>> /\ skipped_count' = 0
    /\ cur' = NoCur
    /\ syncCalls' = 0 /\ pushCalls' = 0
    /\ abortCause' = ""
    /\ summary' = NoSummary
    /\ store0' = store /\ runs0' = runs /\ commits0' = commits /\ remote0' = remote
    /\ pc' = "idle"
    /\ UNCHANGED <<fs, schema, store, marked, call, runs, commits, remote, now, nruns,
                   pushOutcome, prevPush>>

\* run_archiver returned or raised: the process exits (main, lines 216-235)
Exit ==
    /\ Ended
    /\ Forget

\* the process is killed between two steps
Interrupt ==
    /\ ~Idle /\ ~Ended
    /\ Forget

Next ==
    \/ AddEntry
    \/ Tick
    \/ StartRun
    \/ EnsureUpToDate
    \/ ResolveAndScan
    \/ LoopSkip
    \/ LoopArchive
    \/ LoopEnd
    \/ Format
    \/ WriteAndCommit
    \/ MarkArchived
    \/ PushToRemote
    \/ SkipPush
    \/ RecordRun
    \/ Summarize
    \/ Exit
    \/ Interrupt

Spec == Init /\ [][Next]_vars

-----------------------------------------------------------------------------
(* Scanner.scan on its own: any directory content, any filters *)

ScanDates ==
    {[day |-> 0, sep |-> "T", tod |-> 0], [day |-> 0, sep |-> " ", tod |-> 1],
     [day |-> 1, sep |-> "T", tod |-> 0], Garbage}

ScanEntries ==
    {NoEntry, OtherEntry("file"), OtherEntry("nometa"), OtherEntry("badmeta")}
    \cup {RecEntry(d, m, dur) : d \in ScanDates, m \in {"Meeting", "default"},
                                dur \in {100, 13647}}

ScanModes == {<<>>, <<"meeting">>, <<"DEFAULT", "x">>}
ScanMinDurations == {0, 1000}
ScanSinces == {NoDate, [day |-> 0, sep |-> "T", tod |-> 1], [day |-> 1, sep |-> "", tod |-> 0]}

InitScan ==
    /\ fs \in [Dirs -> ScanEntries]
    /\ schema = FALSE
    /\ store = NoStore
    /\ marked = NoMarks
    /\ call = NoCall
    /\ runs = <<>>
    /\ commits = {}
    /\ remote = {}
    /\ now = 0
    /\ nruns = 0
    /\ pc = "idle"
    /\ dry_run = FALSE /\ backfill = FALSE /\ since_date = NoDate
    /\ since = NoDate
    /\ scanArgs = NoArgs
    /\ scanStatus = "none"
    /\ recordings = <<>>
    /\ idx = 1
    /\ results = <<>>
    /\ skipped_count = 0
    /\ cur = NoCur
    /\ syncCalls = 0 /\ pushCalls = 0
    /\ pushOutcome = "none" /\ prevPush = "none"
    /\ abortCause = ""
    /\ summary = NoSummary
    /\ store0 = NoStore /\ runs0 = <<>> /\ commits0 = {} /\ remote0 = {}

\* one call of Scanner.scan(modes, min_duration_ms, since)
ScanCall ==
    \E order \in Orders(Present(fs)), modes \in ScanModes,
       min_duration_ms \in ScanMinDurations, snc \in ScanSinces :
        LET r == scan(fs, order, modes, min_duration_ms, snc)
        IN /\ scanArgs' = [modes |-> modes, min_duration_ms |-> min_duration_ms,
                           since |-> snc]
           /\ scanStatus' = r.status
           /\ recordings' = r.recs
           /\ UNCHANGED <<fs, schema, store, marked, call, runs, commits, remote, now,
                          nruns, pc, dry_run,
                          backfill, since_date, since, idx, results, skipped_count, cur,
                          syncCalls, pushCalls, pushOutcome, prevPush, abortCause,
                          summary, store0, runs0, commits0, remote0>>

NextScan == ScanCall

SpecScan == InitScan /\ [][NextScan]_vars

-----------------------------------------------------------------------------
(* The StateTracker on its own: any sequence of opens, mark_archived and   *)
(* update_last_run calls on one database file                              *)

StoreArgs ==
    {[datetime |-> isoformat(t), modeName |-> "Meeting", duration |-> 13647,
      file_path |-> compute_file_path([datetime |-> isoformat(t)]), commit_sha |-> sha] :
        t \in {0, 1}, sha \in {1}}

StoreFrame ==
    UNCHANGED <<fs, call, commits, remote, pc, dry_run, backfill, since_date, since,
                scanArgs, scanStatus, recordings, idx, results, skipped_count, cur,
                syncCalls, pushCalls, pushOutcome, prevPush, abortCause, summary,
                commits0, remote0>>

\* StateTracker(db_path): lines 15-18, at the start of a process
Open ==
    /\ nruns < MaxRuns
    /\ nruns' = nruns + 1
    /\ schema' = TRUE
    /\ store' = init_db(schema, store, NoStore)
    /\ runs' = init_db(schema, runs, <<>>)
    /\ store0' = store' /\ runs0' = runs'
    /\ UNCHANGED <<marked, now>>
    /\ StoreFrame

\* mark_archived(source_dir, ...), for a new or an already marked source_dir
MarkCall ==
    \E id \in Dirs, a \in StoreArgs :
        /\ schema
        /\ id \in DOMAIN marked => marked[id].calls < MaxCalls
        /\ store' = mark_archived(store, id,
                                  ArchiveRecord(a, a.file_path, a.commit_sha, now))
        /\ marked' = Noted(marked, id, ArchiveRecord(a, a.file_path, a.commit_sha, now))
        /\ UNCHANGED <<schema, runs, nruns, now, store0, runs0>>
        /\ StoreFrame

\* update_last_run(...)
RunCall ==
    /\ schema
    /\ Len(runs) < MaxRuns
    /\ runs' = update_last_run(runs, now, 1, 1, 0)
    /\ UNCHANGED <<schema, store, marked, nruns, now, store0, runs0>>
    /\ StoreFrame

NextStore ==
    \/ Open
    \/ MarkCall
    \/ RunCall

SpecStore == Init /\ [][NextStore]_vars

-----------------------------------------------------------------------------
(* The pure functions of the MarkdownFormatter: one call on any input; a    *)
(* call leaves nothing behind that a later call could read                 *)

PathRecordings ==
    {[source_dir |-> m, datetime |-> [day |-> d, sep |-> c, tod |-> t], modeName |-> m] :
        d \in 0..MaxPathDay, c \in {"T", " "}, t \in Tods, m \in {"Meeting", "default"}}

Durations ==
    {h * 3600000 + m * 60000 + sec * 1000 + ms :
        h \in 0..MaxHours, m \in {0, 1, 2, 30, 59}, sec \in {0, 3, 30, 59}, ms \in {0, 999}}

FormatFrame ==
    UNCHANGED <<fs, schema, store, marked, runs, commits, remote, now, nruns, pc,
                dry_run, backfill, since_date, since, scanArgs, scanStatus, recordings,
                idx, results, skipped_count, cur, syncCalls, pushCalls, pushOutcome,
                prevPush, abortCause, summary, store0, runs0, commits0, remote0>>

\* compute_file_path on two recordings
PathCall ==
    \E a, b \in PathRecordings :
        /\ call = NoCall
        /\ call' = [fn |-> "compute_file_path", a |-> a, b |-> b,
                    path_a |-> compute_file_path(a), path_b |-> compute_file_path(b)]
        /\ FormatFrame

\* _format_duration on one duration
DurationCall ==
    \E d \in Durations :
        /\ call = NoCall
        /\ call' = [fn |-> "_format_duration", duration_ms |-> d, out |-> format_duration(d)]
        /\ FormatFrame

NextFormat ==
    \/ PathCall
    \/ DurationCall

SpecFormat == Init /\ [][NextFormat]_vars


-----------------------------------------------------------------------------
(* Claims *)

PastLoop == pc \in {"record", "summary", "done"}

ShasOf(cs) == {c.sha : c \in cs}

\* C1: every ArchiveRecord in the store carries the id of a commit that
\* write_and_commit made for that same recording, made in the same run as
\* the record, and a success result of a non-dry run is in the store as soon
\* as it is in the result list (no write is deferred to the end of the run).
C1_MarkedOnlyAfterOwnCommit ==
    /\ \A id \in DOMAIN store :
          \E c \in commits :
              /\ c.sha = store[id].commit_sha
              /\ c.src = id
              /\ c.path = store[id].file_path
              /\ id \notin DOMAIN store0 => c \notin commits0
    /\ ~dry_run =>
          \A i \in 1..Len(results) :
              results[i].success =>
                  /\ results[i].source_dir \in DOMAIN store
                  /\ store[results[i].source_dir].commit_sha = results[i].commit_sha

\* C1 witness: after an interrupted run the store holds a record and the
\* repository a commit of a recording that was never marked
C1_Witness ==
    /\ pc = "idle"
    /\ DOMAIN store # {}
    /\ \E c \in commits : c.src \notin DOMAIN store

\* C2: a candidate that already has an ArchiveRecord is only counted as
\* skipped: its record stays as it was, it gets no result and no commit, and
\* the other candidates of the run each get their result.
C2_SkippedUntouched ==
    /\ \A id \in DOMAIN store0 : id \in DOMAIN store /\ store[id] = store0[id]
    /\ \A i \in 1..Len(results) : results[i].source_dir \notin DOMAIN store0
    /\ \A c \in commits \ commits0 : c.src \notin DOMAIN store0
    /\ (PastLoop \/ pc = "push") =>
          /\ skipped_count =
                Cardinality({i \in 1..Len(recordings) :
                                recordings[i].source_dir \in DOMAIN store0})
          /\ \A i \in 1..Len(recordings) :
                recordings[i].source_dir \notin DOMAIN store0 =>
                    \E k \in 1..Len(results) :
                        results[k].source_dir = recordings[i].source_dir

\* C2 witness: one archived, one skipped, two records of which one is the old one
C2_Witness ==
    /\ pc = "done" /\ ~dry_run
    /\ skipped_count = 1
    /\ Len(results) = 1 /\ results[1].success
    /\ Cardinality(DOMAIN store) = 2
    /\ Cardinality(DOMAIN store0) = 1

\* C3: a failed candidate gets a failure result with its error and no
\* ArchiveRecord, the run is not ended by it, every later candidate is still
\* processed, and a candidate's result is a success exactly when its own
\* commit and mark went through.
C3_PerRecordingIsolation ==
    /\ abortCause # "recording"
    /\ \A i \in 1..Len(results) :
          /\ ~results[i].success =>
                results[i].error # "" /\ results[i].source_dir \notin DOMAIN store
          /\ (~dry_run /\ results[i].success) =>
                \E c \in commits \ commits0 :
                    c.src = results[i].source_dir /\ c.sha = results[i].commit_sha
    /\ (PastLoop \/ pc = "push") => Len(results) + skipped_count = Len(recordings)
    /\ \A i \in 1..Len(results) :
          \E k \in 1..Len(recordings) :
              /\ recordings[k].source_dir = results[i].source_dir
              /\ k < idx

\* C3 witness: the first candidate failed, the second was archived
C3_Witness ==
    /\ pc = "done" /\ ~dry_run
    /\ Len(results) = 2
    /\ ~results[1].success /\ results[1].error = "Failed to commit recording"
    /\ results[2].success

\* C4: at most one push per run; a push is made only in a non-dry run with a
\* success and only after the loop over the candidates has ended, and a run
\* that got past the push step made one exactly when it is not a dry-run and
\* has a success.
C4_PushOncePerRun ==
    /\ pushCalls <= 1
    /\ pushCalls = 1 =>
          /\ ~dry_run
          /\ CountSuccess(results) >= 1
          /\ idx > Len(recordings)
          /\ pc \in {"record", "summary", "done", "aborted"}
    /\ PastLoop => (pushCalls = 1 <=> (~dry_run /\ CountSuccess(results) >= 1))
    /\ pushCalls = 0 => remote = remote0

\* C4 witness: two candidates archived, one push
C4_Witness ==
    /\ pc = "done"
    /\ CountSuccess(results) = 2
    /\ pushCalls = 1

\* C5: every non-dry run that gets past candidate processing appends exactly
\* one RunRecord, whatever the push did, with processed = scanned candidates,
\* archived = successes, failed = failures.
C5_RunRecordWhateverPushDid ==
    (Ended /\ ~dry_run /\ abortCause \notin {"sync", "scan"}) =>
        /\ Len(runs) = Len(runs0) + 1
        /\ runs[Len(runs)].recordings_processed = Len(recordings)
        /\ runs[Len(runs)].recordings_archived = CountSuccess(results)
        /\ runs[Len(runs)].recordings_failed = CountFailure(results)

\* C6: a dry-run makes no sync, commit, push, mark or RunRecord, leaves store,
\* run list and repository as they were, and every result it produces is a
\* success record with the computed path and no commit id.
C6_DryRunOnlySuccessRecords ==
    (dry_run /\ ~Idle) =>
        /\ store = store0 /\ runs = runs0 /\ commits = commits0 /\ remote = remote0
        /\ syncCalls = 0 /\ pushCalls = 0
        /\ \A i \in 1..Len(results) :
              /\ results[i].success
              /\ results[i].commit_sha = NoSha
              /\ results[i].file_path # NoPath

\* the most recently appended RunRecord's timestamp
LatestRunAt(rs) == rs[Len(rs)].run_at

\* C7: the bound handed to scan is: none under backfill, whatever else is
\* given; else the explicit since-date; else the latest RunRecord's
\* timestamp; else none.
C7_SincePrecedence ==
    scanStatus # "none" =>
        /\ scanArgs.since = since
        /\ since = IF backfill THEN NoDate
                   ELSE IF since_date # NoDate THEN since_date
                   ELSE IF runs0 # <<>> THEN LatestRunAt(runs0)
                   ELSE NoDate

\* C7 witness: backfill wins over an explicit since-date and a RunRecord
C7_Witness ==
    /\ scanStatus = "ok"
    /\ backfill /\ since_date # NoDate /\ runs0 # <<>>
    /\ since = NoDate

\* C8 as claimed: the non-dry run after a non-dry run whose push failed
\* issues a push.
C8_NextRunAlwaysPushes ==
    (pc = "done" /\ ~dry_run /\ prevPush = "failed") => pushCalls = 1

\* C8 as amended: a failed push leaves the commits local; the following
\* non-dry run pushes only if it archives a candidate itself, a successful
\* push then delivers every earlier unpushed commit too, and without a push
\* the remote stays as it was.
C8_RetryOnlyWithNewSuccess ==
    /\ (~Idle /\ ~dry_run /\ prevPush = "failed") =>
          /\ \E c \in commits0 : c.sha \notin remote0
          /\ PastLoop =>
                /\ pushCalls = 1 <=> CountSuccess(results) >= 1
                /\ pushOutcome = "ok" => ShasOf(commits) \subseteq remote
                /\ pushCalls = 0 => remote = remote0
    /\ (~Idle /\ ~dry_run /\ pushOutcome = "failed") =>
          /\ commits0 \subseteq commits
          /\ remote = remote0
          /\ \E c \in commits \ commits0 : c.sha \notin remote

\* C8 witness: the run after a failed push pushes and the older commit arrives
C8_Witness ==
    /\ pc = "done" /\ ~dry_run /\ prevPush = "failed"
    /\ pushOutcome = "ok"
    /\ \E c \in commits0 : c.sha \notin remote0 /\ c.sha \in remote

\* C9: a non-dry run attempts sync once before the scan and no failure of it
\* reaches the orchestrator: the run goes on to scan.
C9_SyncNeverRaises ==
    /\ abortCause # "sync"
    /\ (~dry_run /\ ~Idle /\ pc # "sync") => syncCalls = 1

\* the recordings the claim expects of a scan, as a set
Qualifies(r, a) ==
    /\ a.modes = <<>> \/ \E i \in 1..Len(a.modes) : lower(a.modes[i]) = lower(r.modeName)
    /\ a.min_duration_ms > 0 => r.duration >= a.min_duration_ms
    /\ a.since # NoDate =>
          IsIso(r.datetime) /\ fromisoformat(r.datetime) >= fromisoformat(a.since)

Expected(dir, a) ==
    {r \in {Recording(id, dir[id]) : id \in {x \in DOMAIN dir : dir[x].kind = "rec"}} :
        Qualifies(r, a)}

C11_MalformedSkippedOnly ==
    scanStatus # "none" =>
        /\ scanStatus = "ok"
        /\ {recordings[i] : i \in 1..Len(recordings)}
              = {r \in Expected(fs, scanArgs) : IsIso(r.datetime)}

\* C12: mark_archived is an upsert keyed on the source directory: after any
\* sequence of calls the store holds exactly one record for each source_dir
\* that was marked (get_archived_count is the number of distinct ids marked),
\* each carrying the fields of the last call made for it; a repeated call
\* for one source_dir leaves the records of the others as they were.
C12_MarkArchivedIsUpsert ==
    /\ DOMAIN store = DOMAIN marked
    /\ get_archived_count(store) = Cardinality(DOMAIN marked)
    /\ \A id \in DOMAIN marked : store[id] = marked[id].rec

C12_Witness ==
    \E id, other \in DOMAIN marked :
        /\ id # other
        /\ marked[id].calls = 2
        /\ marked[other].calls = 1
        /\ store[id] # store[other]
        /\ get_archived_count(store) = 2

\* C13: after any sequence of mark_archived calls, recorded runs and
\* re-opens of the store, is_archived(id) is true exactly for the ids that
\* mark_archived was called for earlier: opening an existing store resets
\* nothing.
C13_ArchivedIffMarked ==
    \A id \in Dirs : is_archived(store, id) <=> id \in DOMAIN marked

C13_Witness ==
    /\ nruns >= 2
    /\ runs # <<>>
    /\ \E id \in DOMAIN store0 : is_archived(store, id)
    /\ \E id \in Dirs : ~is_archived(store, id)

DigitValue(c) == CHOOSE k \in 0..9 : DigitChars[k + 1] = c

IsDigit(c) == \E k \in 0..9 : DigitChars[k + 1] = c

TwoDigits(p, i) == 10 * DigitValue(p[i]) + DigitValue(p[i + 1])

FourDigits(p, i) == 100 * TwoDigits(p, i) + TwoDigits(p, i + 2)

\* p is YYYY/MM/YYYY-MM-DD-HH-MM-SS.md for the date-time dt
IsPathOf(p, dt) ==
    LET d == DateOf(dt \div 2)
        t == TimeOf(dt % 2)
    IN /\ Len(p) = 30
       /\ p[5] = "/" /\ p[8] = "/"
       /\ \A i \in {13, 16, 19, 22, 25} : p[i] = "-"
       /\ SubSeq(p, 28, 30) = <<".", "m", "d">>
       /\ \A i \in (1..27) \ {5, 8, 13, 16, 19, 22, 25} : IsDigit(p[i])
       /\ FourDigits(p, 1) = d.year /\ TwoDigits(p, 6) = d.month
       /\ FourDigits(p, 9) = d.year /\ TwoDigits(p, 14) = d.month
       /\ TwoDigits(p, 17) = d.day /\ TwoDigits(p, 20) = t.hour
       /\ TwoDigits(p, 23) = t.minute /\ TwoDigits(p, 26) = t.second

\* C14: the path of a recording is YYYY/MM/YYYY-MM-DD-HH-MM-SS.md, every
\* component zero-padded, computed from the recording's timestamp and
\* nothing else: two recordings get the same path exactly when their
\* timestamps are the same to the second.
C14_PathFromTimestampAlone ==
    call.fn = "compute_file_path" =>
        LET ta == fromisoformat(call.a.datetime)
            tb == fromisoformat(call.b.datetime)
        IN /\ IsPathOf(call.path_a, ta)
           /\ IsPathOf(call.path_b, tb)
           /\ call.path_a = call.path_b <=> ta = tb

C14_Witness ==
    /\ call.fn = "compute_file_path"
    /\ call.a.datetime # call.b.datetime
    /\ call.a.modeName # call.b.modeName
    /\ fromisoformat(call.a.datetime) = fromisoformat(call.b.datetime)
    /\ call.path_a = call.path_b
    /\ call.path_a = <<"2", "0", "2", "5", "/", "0", "1", "/", "2", "0", "2", "5", "-",
                       "0", "1", "-", "1", "1", "-", "0", "9", "-", "0", "5", "-", "0",
                       "7", ".", "m", "d">>

\* C15: a duration of d >= 0 milliseconds is rendered as "Ns" when
\* d < 60000, as "Mm Ss" when 60000 <= d < 3600000 and as "Hh Mm Ss"
\* otherwise, with H = d div 3600000, M = (d div 60000) mod 60 and
\* S = (d div 1000) mod 60.
C15_DurationString ==
    call.fn = "_format_duration" =>
        LET d == call.duration_ms
            H == decimal(d \div 3600000)
            M == decimal((d \div 60000) % 60)
            S == decimal((d \div 1000) % 60)
        IN call.out =
             IF d < 60000 THEN S \o <<"s">>
             ELSE IF d < 3600000 THEN M \o <<"m", " ">> \o S \o <<"s">>
             ELSE H \o <<"h", " ">> \o M \o <<"m", " ">> \o S \o <<"s">>

C15_Witness ==
    /\ call.fn = "_format_duration"
    /\ call.duration_ms = 3723999
    /\ call.out = <<"1", "h", " ", "2", "m", " ", "3", "s">>

Incremental == ~backfill /\ since_date = NoDate /\ runs0 # <<>>

\* a recording of the directory that is not in the store and is older than
\* the latest RunRecord is no candidate of an incremental run
C16_PassedOverForGood ==
    (Incremental /\ scanStatus = "ok") =>
        /\ \A i \in 1..Len(recordings) :
              fromisoformat(recordings[i].datetime) >= fromisoformat(LatestRunAt(runs0))
        /\ \A id \in Dirs :
              (/\ fs[id].kind = "rec" /\ IsIso(fs[id].datetime)
               /\ fromisoformat(fs[id].datetime) < fromisoformat(LatestRunAt(runs0)))
              => /\ \A i \in 1..Len(recordings) : recordings[i].source_dir # id
                 /\ \A i \in 1..Len(results) : results[i].source_dir # id
                 /\ (id \notin DOMAIN store0 => id \notin DOMAIN store)

\* C16: every non-dry run appends its RunRecord, stamped with the time at
\* the end of the run, whether or not all candidates succeeded; an
\* incremental run scans only recordings whose timestamp is not before the
\* latest RunRecord's, so a recording left unarchived that is older than the
\* latest RunRecord is attempted by no later incremental run.
C16_RunRecordBoundsLaterRuns ==
    /\ (Ended /\ ~dry_run) =>
          /\ Len(runs) = Len(runs0) + 1
          /\ LatestRunAt(runs) = isoformat(now)
    /\ C16_PassedOverForGood

\* C17: in the summary of a run, dry or not, every scanned candidate is
\* accounted for exactly once: total_recordings = archived_count +
\* failed_count + skipped_count; the result list has one entry for each
\* candidate that was not skipped, in the order of processing, and none for
\* a skipped one; archived_count and failed_count are the numbers of success
\* and failure entries of that list.
C17_SummaryAccountsForAll ==
    pc = "done" =>
        LET rs == summary.results
            pos(i) == CHOOSE k \in 1..Len(recordings) :
                          recordings[k].source_dir = rs[i].source_dir
        IN /\ summary.total_recordings = Len(recordings)
           /\ summary.total_recordings
                = summary.archived_count + summary.failed_count + summary.skipped_count
           /\ Len(rs) = summary.archived_count + summary.failed_count
           /\ summary.archived_count = Cardinality({i \in 1..Len(rs) : rs[i].success})
           /\ summary.failed_count = Cardinality({i \in 1..Len(rs) : ~rs[i].success})
           /\ \A i \in 1..Len(rs) :
                 \E k \in 1..Len(recordings) : recordings[k].source_dir = rs[i].source_dir
           /\ \A i, j \in 1..Len(rs) : i < j => pos(i) < pos(j)
           /\ summary.skipped_count
                = Cardinality({k \in 1..Len(recordings) :
                                 \A i \in 1..Len(rs) :
                                     rs[i].source_dir # recordings[k].source_dir})
           /\ \A k \in 1..Len(recordings) :
                 recordings[k].source_dir \in DOMAIN store0
                 <=> \A i \in 1..Len(rs) : rs[i].source_dir # recordings[k].source_dir

C17_Witness ==
    /\ pc = "done"
    /\ summary.total_recordings = 2
    /\ summary.skipped_count = 1
    /\ summary.failed_count = 1
    /\ Len(summary.results) = 1

====
